---- MODULE Spec2Model ----
(***************************************************************************)
(* State-machine model of the CISA KEV pipeline in src/etl_connector.py:   *)
(* fetch_vulnerability_data -> process_vulnerability_records ->            *)
(* store_in_mongodb, sequenced by execute_complete_pipeline.               *)
(*                                                                         *)
(* Representation.  A JSON scalar is a record [t, s]: t is the JSON type   *)
(* and s the value's characters ("str": the string, "int": the decimal     *)
(* digits, "null": empty).  A Python dict is a function from key strings   *)
(* to values (its DOMAIN is the set of keys present).  Wall-clock time     *)
(* (datetime.utcnow) is a logical tick, the variable clock.                *)
(***************************************************************************)
EXTENDS Integers, Sequences, FiniteSets, TLC

\* ------------------------------------------------------------------ bounds
MaxRecords == 2
MaxRichRecords == 2
MaxRuns == 2

\* ------------------------------------------------------------- JSON values
JStr(chars) == [t |-> "str", s |-> chars]
JInt(digits) == [t |-> "int", s |-> digits]
JNull == [t |-> "null", s |-> <<>>]
EmptyDict == [k \in {} |-> JNull]

\* Python truthiness of a JSON scalar: '' , 0 and None are falsy.
Truthy(v) ==
    CASE v.t = "str" -> v.s # <<>>
      [] v.t = "int" -> \E i \in 1..Len(v.s) : v.s[i] # "0"
      [] OTHER -> FALSE

\* dict.get(key) with the default None.
Get(d, key) == IF key \in DOMAIN d THEN d[key] ELSE JNull

\* ------------------------------------------- datetime.strptime('%Y-%m-%d')
\* A character is a one-character string; a character outside ASCII is
\* written as its code point ("U+0665" is ARABIC-INDIC DIGIT FIVE).
\* The decimal digits of Unicode (general category Nd, Unicode 14.0.0):
\* DecimalDigits[n + 1] is the set of the digits of value n.
DecimalDigits ==
    <<
      {
        "0", "U+0660", "U+06F0", "U+07C0", "U+0966", "U+09E6", "U+0A66",
        "U+0AE6", "U+0B66", "U+0BE6", "U+0C66", "U+0CE6", "U+0D66", "U+0DE6",
        "U+0E50", "U+0ED0", "U+0F20", "U+1040", "U+1090", "U+17E0", "U+1810",
        "U+1946", "U+19D0", "U+1A80", "U+1A90", "U+1B50", "U+1BB0", "U+1C40",
        "U+1C50", "U+A620", "U+A8D0", "U+A900", "U+A9D0", "U+A9F0", "U+AA50",
        "U+ABF0", "U+FF10", "U+104A0", "U+10D30", "U+11066", "U+110F0",
        "U+11136", "U+111D0", "U+112F0", "U+11450", "U+114D0", "U+11650",
        "U+116C0", "U+11730", "U+118E0", "U+11950", "U+11C50", "U+11D50",
        "U+11DA0", "U+16A60", "U+16AC0", "U+16B50", "U+1D7CE", "U+1D7D8",
        "U+1D7E2", "U+1D7EC", "U+1D7F6", "U+1E140", "U+1E2F0", "U+1E950",
        "U+1FBF0" },
      {
        "1", "U+0661", "U+06F1", "U+07C1", "U+0967", "U+09E7", "U+0A67",
        "U+0AE7", "U+0B67", "U+0BE7", "U+0C67", "U+0CE7", "U+0D67", "U+0DE7",
        "U+0E51", "U+0ED1", "U+0F21", "U+1041", "U+1091", "U+17E1", "U+1811",
        "U+1947", "U+19D1", "U+1A81", "U+1A91", "U+1B51", "U+1BB1", "U+1C41",
        "U+1C51", "U+A621", "U+A8D1", "U+A901", "U+A9D1", "U+A9F1", "U+AA51",
        "U+ABF1", "U+FF11", "U+104A1", "U+10D31", "U+11067", "U+110F1",
        "U+11137", "U+111D1", "U+112F1", "U+11451", "U+114D1", "U+11651",
        "U+116C1", "U+11731", "U+118E1", "U+11951", "U+11C51", "U+11D51",
        "U+11DA1", "U+16A61", "U+16AC1", "U+16B51", "U+1D7CF", "U+1D7D9",
        "U+1D7E3", "U+1D7ED", "U+1D7F7", "U+1E141", "U+1E2F1", "U+1E951",
        "U+1FBF1" },
      {
        "2", "U+0662", "U+06F2", "U+07C2", "U+0968", "U+09E8", "U+0A68",
        "U+0AE8", "U+0B68", "U+0BE8", "U+0C68", "U+0CE8", "U+0D68", "U+0DE8",
        "U+0E52", "U+0ED2", "U+0F22", "U+1042", "U+1092", "U+17E2", "U+1812",
        "U+1948", "U+19D2", "U+1A82", "U+1A92", "U+1B52", "U+1BB2", "U+1C42",
        "U+1C52", "U+A622", "U+A8D2", "U+A902", "U+A9D2", "U+A9F2", "U+AA52",
        "U+ABF2", "U+FF12", "U+104A2", "U+10D32", "U+11068", "U+110F2",
        "U+11138", "U+111D2", "U+112F2", "U+11452", "U+114D2", "U+11652",
        "U+116C2", "U+11732", "U+118E2", "U+11952", "U+11C52", "U+11D52",
        "U+11DA2", "U+16A62", "U+16AC2", "U+16B52", "U+1D7D0", "U+1D7DA",
        "U+1D7E4", "U+1D7EE", "U+1D7F8", "U+1E142", "U+1E2F2", "U+1E952",
        "U+1FBF2" },
      {
        "3", "U+0663", "U+06F3", "U+07C3", "U+0969", "U+09E9", "U+0A69",
        "U+0AE9", "U+0B69", "U+0BE9", "U+0C69", "U+0CE9", "U+0D69", "U+0DE9",
        "U+0E53", "U+0ED3", "U+0F23", "U+1043", "U+1093", "U+17E3", "U+1813",
        "U+1949", "U+19D3", "U+1A83", "U+1A93", "U+1B53", "U+1BB3", "U+1C43",
        "U+1C53", "U+A623", "U+A8D3", "U+A903", "U+A9D3", "U+A9F3", "U+AA53",
        "U+ABF3", "U+FF13", "U+104A3", "U+10D33", "U+11069", "U+110F3",
        "U+11139", "U+111D3", "U+112F3", "U+11453", "U+114D3", "U+11653",
        "U+116C3", "U+11733", "U+118E3", "U+11953", "U+11C53", "U+11D53",
        "U+11DA3", "U+16A63", "U+16AC3", "U+16B53", "U+1D7D1", "U+1D7DB",
        "U+1D7E5", "U+1D7EF", "U+1D7F9", "U+1E143", "U+1E2F3", "U+1E953",
        "U+1FBF3" },
      {
        "4", "U+0664", "U+06F4", "U+07C4", "U+096A", "U+09EA", "U+0A6A",
        "U+0AEA", "U+0B6A", "U+0BEA", "U+0C6A", "U+0CEA", "U+0D6A", "U+0DEA",
        "U+0E54", "U+0ED4", "U+0F24", "U+1044", "U+1094", "U+17E4", "U+1814",
        "U+194A", "U+19D4", "U+1A84", "U+1A94", "U+1B54", "U+1BB4", "U+1C44",
        "U+1C54", "U+A624", "U+A8D4", "U+A904", "U+A9D4", "U+A9F4", "U+AA54",
        "U+ABF4", "U+FF14", "U+104A4", "U+10D34", "U+1106A", "U+110F4",
        "U+1113A", "U+111D4", "U+112F4", "U+11454", "U+114D4", "U+11654",
        "U+116C4", "U+11734", "U+118E4", "U+11954", "U+11C54", "U+11D54",
        "U+11DA4", "U+16A64", "U+16AC4", "U+16B54", "U+1D7D2", "U+1D7DC",
        "U+1D7E6", "U+1D7F0", "U+1D7FA", "U+1E144", "U+1E2F4", "U+1E954",
        "U+1FBF4" },
      {
        "5", "U+0665", "U+06F5", "U+07C5", "U+096B", "U+09EB", "U+0A6B",
        "U+0AEB", "U+0B6B", "U+0BEB", "U+0C6B", "U+0CEB", "U+0D6B", "U+0DEB",
        "U+0E55", "U+0ED5", "U+0F25", "U+1045", "U+1095", "U+17E5", "U+1815",
        "U+194B", "U+19D5", "U+1A85", "U+1A95", "U+1B55", "U+1BB5", "U+1C45",
        "U+1C55", "U+A625", "U+A8D5", "U+A905", "U+A9D5", "U+A9F5", "U+AA55",
        "U+ABF5", "U+FF15", "U+104A5", "U+10D35", "U+1106B", "U+110F5",
        "U+1113B", "U+111D5", "U+112F5", "U+11455", "U+114D5", "U+11655",
        "U+116C5", "U+11735", "U+118E5", "U+11955", "U+11C55", "U+11D55",
        "U+11DA5", "U+16A65", "U+16AC5", "U+16B55", "U+1D7D3", "U+1D7DD",
        "U+1D7E7", "U+1D7F1", "U+1D7FB", "U+1E145", "U+1E2F5", "U+1E955",
        "U+1FBF5" },
      {
        "6", "U+0666", "U+06F6", "U+07C6", "U+096C", "U+09EC", "U+0A6C",
        "U+0AEC", "U+0B6C", "U+0BEC", "U+0C6C", "U+0CEC", "U+0D6C", "U+0DEC",
        "U+0E56", "U+0ED6", "U+0F26", "U+1046", "U+1096", "U+17E6", "U+1816",
        "U+194C", "U+19D6", "U+1A86", "U+1A96", "U+1B56", "U+1BB6", "U+1C46",
        "U+1C56", "U+A626", "U+A8D6", "U+A906", "U+A9D6", "U+A9F6", "U+AA56",
        "U+ABF6", "U+FF16", "U+104A6", "U+10D36", "U+1106C", "U+110F6",
        "U+1113C", "U+111D6", "U+112F6", "U+11456", "U+114D6", "U+11656",
        "U+116C6", "U+11736", "U+118E6", "U+11956", "U+11C56", "U+11D56",
        "U+11DA6", "U+16A66", "U+16AC6", "U+16B56", "U+1D7D4", "U+1D7DE",
        "U+1D7E8", "U+1D7F2", "U+1D7FC", "U+1E146", "U+1E2F6", "U+1E956",
        "U+1FBF6" },
      {
        "7", "U+0667", "U+06F7", "U+07C7", "U+096D", "U+09ED", "U+0A6D",
        "U+0AED", "U+0B6D", "U+0BED", "U+0C6D", "U+0CED", "U+0D6D", "U+0DED",
        "U+0E57", "U+0ED7", "U+0F27", "U+1047", "U+1097", "U+17E7", "U+1817",
        "U+194D", "U+19D7", "U+1A87", "U+1A97", "U+1B57", "U+1BB7", "U+1C47",
        "U+1C57", "U+A627", "U+A8D7", "U+A907", "U+A9D7", "U+A9F7", "U+AA57",
        "U+ABF7", "U+FF17", "U+104A7", "U+10D37", "U+1106D", "U+110F7",
        "U+1113D", "U+111D7", "U+112F7", "U+11457", "U+114D7", "U+11657",
        "U+116C7", "U+11737", "U+118E7", "U+11957", "U+11C57", "U+11D57",
        "U+11DA7", "U+16A67", "U+16AC7", "U+16B57", "U+1D7D5", "U+1D7DF",
        "U+1D7E9", "U+1D7F3", "U+1D7FD", "U+1E147", "U+1E2F7", "U+1E957",
        "U+1FBF7" },
      {
        "8", "U+0668", "U+06F8", "U+07C8", "U+096E", "U+09EE", "U+0A6E",
        "U+0AEE", "U+0B6E", "U+0BEE", "U+0C6E", "U+0CEE", "U+0D6E", "U+0DEE",
        "U+0E58", "U+0ED8", "U+0F28", "U+1048", "U+1098", "U+17E8", "U+1818",
        "U+194E", "U+19D8", "U+1A88", "U+1A98", "U+1B58", "U+1BB8", "U+1C48",
        "U+1C58", "U+A628", "U+A8D8", "U+A908", "U+A9D8", "U+A9F8", "U+AA58",
        "U+ABF8", "U+FF18", "U+104A8", "U+10D38", "U+1106E", "U+110F8",
        "U+1113E", "U+111D8", "U+112F8", "U+11458", "U+114D8", "U+11658",
        "U+116C8", "U+11738", "U+118E8", "U+11958", "U+11C58", "U+11D58",
        "U+11DA8", "U+16A68", "U+16AC8", "U+16B58", "U+1D7D6", "U+1D7E0",
        "U+1D7EA", "U+1D7F4", "U+1D7FE", "U+1E148", "U+1E2F8", "U+1E958",
        "U+1FBF8" },
      {
        "9", "U+0669", "U+06F9", "U+07C9", "U+096F", "U+09EF", "U+0A6F",
        "U+0AEF", "U+0B6F", "U+0BEF", "U+0C6F", "U+0CEF", "U+0D6F", "U+0DEF",
        "U+0E59", "U+0ED9", "U+0F29", "U+1049", "U+1099", "U+17E9", "U+1819",
        "U+194F", "U+19D9", "U+1A89", "U+1A99", "U+1B59", "U+1BB9", "U+1C49",
        "U+1C59", "U+A629", "U+A8D9", "U+A909", "U+A9D9", "U+A9F9", "U+AA59",
        "U+ABF9", "U+FF19", "U+104A9", "U+10D39", "U+1106F", "U+110F9",
        "U+1113F", "U+111D9", "U+112F9", "U+11459", "U+114D9", "U+11659",
        "U+116C9", "U+11739", "U+118E9", "U+11959", "U+11C59", "U+11D59",
        "U+11DA9", "U+16A69", "U+16AC9", "U+16B59", "U+1D7D7", "U+1D7E1",
        "U+1D7EB", "U+1D7F5", "U+1D7FF", "U+1E149", "U+1E2F9", "U+1E959",
        "U+1FBF9" } >>

\* What \d of a str pattern matches: every decimal digit of Unicode.
Digits == UNION {DecimalDigits[i] : i \in 1..10}

\* What the class [1-9] matches: ASCII only.
NonZeroDigits == {"1", "2", "3", "4", "5", "6", "7", "8", "9"}

\* int() of one character: the decimal value of a digit of any script
\* (a blank, as int(' 5') skips it, counts 0).
DigitVal(c) ==
    IF c \in Digits
    THEN (CHOOSE i \in 1..10 : c \in DecimalDigits[i]) - 1
    ELSE 0

\* Value of a token of one or two characters; a leading blank counts 0.
TokenVal(tok) ==
    IF Len(tok) = 1 THEN DigitVal(tok[1])
    ELSE 10 * DigitVal(tok[1]) + DigitVal(tok[2])

IsLeap(y) == (y % 4 = 0 /\ y % 100 # 0) \/ y % 400 = 0

DaysInMonth(y, m) ==
    IF m = 2 THEN (IF IsLeap(y) THEN 29 ELSE 28)
    ELSE IF m \in {4, 6, 9, 11} THEN 30 ELSE 31

\* Length of the month token the directive %m matches at position p of s
\* (alternatives tried in the order 1[0-2], 0[1-9], [1-9]); 0 = no match.
MonthLen(s, p) ==
    IF Len(s) >= p + 1
       /\ (  (s[p] = "1" /\ s[p + 1] \in {"0", "1", "2"})
          \/ (s[p] = "0" /\ s[p + 1] \in NonZeroDigits))
    THEN 2
    ELSE IF Len(s) >= p /\ s[p] \in NonZeroDigits THEN 1 ELSE 0

\* Length of the day token the directive %d matches at position p of s
\* (3[01], [12]\d, 0[1-9], [1-9], ' [1-9]' in that order); 0 = no match.
DayLen(s, p) ==
    IF Len(s) >= p + 1
       /\ (  (s[p] = "3" /\ s[p + 1] \in {"0", "1"})
          \/ (s[p] \in {"1", "2"} /\ s[p + 1] \in Digits)
          \/ (s[p] = "0" /\ s[p + 1] \in NonZeroDigits))
    THEN 2
    ELSE IF Len(s) >= p /\ s[p] \in NonZeroDigits THEN 1
    ELSE IF Len(s) >= p + 1 /\ s[p] = " " /\ s[p + 1] \in NonZeroDigits
    THEN 2 ELSE 0

\* datetime.strptime(v, '%Y-%m-%d'): exc is "none" and (y, m, d) the date,
\* or exc is the exception raised: TypeError when v is not a str,
\* ValueError when the text does not match the format, text remains after
\* the match, or the matched numbers are not a calendar date.
strptime(v) ==
    LET s == v.s
        bad(e) == [exc |-> e, y |-> 0, m |-> 0, d |-> 0]
    IN  IF v.t # "str" THEN bad("TypeError")
        ELSE IF ~(Len(s) >= 5 /\ (\A i \in 1..4 : s[i] \in Digits) /\ s[5] = "-")
        THEN bad("ValueError")
        ELSE LET ml == MonthLen(s, 6) IN
             IF ml = 0 \/ Len(s) < 6 + ml \/ s[6 + ml] # "-"
             THEN bad("ValueError")
             ELSE LET dp == 7 + ml
                      dl == DayLen(s, dp) IN
                  IF dl = 0 \/ Len(s) # dp + dl - 1 THEN bad("ValueError")
                  ELSE LET y == 1000 * DigitVal(s[1]) + 100 * DigitVal(s[2])
                                + 10 * DigitVal(s[3]) + DigitVal(s[4])
                           m == TokenVal(SubSeq(s, 6, 5 + ml))
                           d == TokenVal(SubSeq(s, dp, dp + dl - 1)) IN
                       IF y < 1 \/ d > DaysInMonth(y, m) THEN bad("ValueError")
                       ELSE [exc |-> "none", y |-> y, m |-> m, d |-> d]

\* ------------------------------------------------------------ raw records
\* An element of the payload's vulnerabilities value is a JSON value
\* [t, d]: a mapping ("dict", d its fields), the empty list ("list"), the
\* empty string ("emptystr"), a string of one or more characters ("str") or
\* another scalar ("null", "int"); d is EmptyDict for everything but a
\* mapping.
RawDict(fields) == [t |-> "dict", d |-> fields]
RawScalar(type) == [t |-> type, d |-> EmptyDict]

\* dict(vuln_record) (line 128): a copy of a mapping, {} for an empty list
\* or an empty string, ValueError for a string with characters (its
\* elements are no pairs), TypeError for what cannot be iterated.
dict(vuln_record) ==
    IF vuln_record.t \in {"dict", "list", "emptystr"}
    THEN [exc |-> "none", rec |-> vuln_record.d]
    ELSE IF vuln_record.t = "str" THEN [exc |-> "ValueError", rec |-> EmptyDict]
    ELSE [exc |-> "TypeError", rec |-> EmptyDict]

\* The return value None of fetch_vulnerability_data.
None == [t |-> "null", d |-> EmptyDict]

\* datetime.date().isoformat() of a tick: the date part of the instant.
IsoDate(now) == <<"date", now>>

\* datetime.isoformat() of a tick.
IsoDateTime(now) == <<"datetime", now>>

date_fields_to_parse == <<"dateAdded", "dueDate">>

\* f'{date_field}_datetime'
DatetimeKey(date_field) ==
    IF date_field = "dateAdded" THEN "dateAdded_datetime" ELSE "dueDate_datetime"

\* One iteration of the date loop (lines 141-147) on the result so far:
\* a ValueError of strptime is swallowed, any other exception propagates.
ParseDateField(acc, vuln_record, date_field) ==
    IF acc.exc # "none" THEN acc
    ELSE IF ~(date_field \in DOMAIN vuln_record.d
              /\ Truthy(vuln_record.d[date_field])) THEN acc
    ELSE LET parsed_date == strptime(vuln_record.d[date_field]) IN
         IF parsed_date.exc = "none"
         THEN [acc EXCEPT !.rec =
                  (DatetimeKey(date_field) :>
                      [y |-> parsed_date.y, m |-> parsed_date.m, d |-> parsed_date.d])
                  @@ acc.rec]
         ELSE IF parsed_date.exc = "ValueError" THEN acc
         ELSE [acc EXCEPT !.exc = parsed_date.exc]

RECURSIVE ParseDateFields(_, _, _)
ParseDateFields(acc, vuln_record, i) ==
    IF i > Len(date_fields_to_parse) THEN acc
    ELSE ParseDateFields(ParseDateField(acc, vuln_record, date_fields_to_parse[i]),
                         vuln_record, i + 1)

\* Variant: the enhanced record is built from an empty mapping instead of a
\* copy of the raw record.
_enhance_vulnerability_record_NoCopy(vuln_record, catalog_info, record_position, now) ==
    IF dict(vuln_record).exc # "none" THEN dict(vuln_record)
    ELSE LET enhanced_vuln ==
                 ("record_processed_at" :> now)
              @@ ("processing_date" :> IsoDate(now))
              @@ ("record_position" :> record_position)
              @@ ("source_system" :> "cisa_kev_catalog")
              @@ ("catalog_information" :> catalog_info)
         IN  ParseDateFields([exc |-> "none", rec |-> enhanced_vuln], vuln_record, 1)

\* _enhance_vulnerability_record: exc = "none" and rec the enhanced record,
\* or exc the exception that leaves the method.
_enhance_vulnerability_record(vuln_record, catalog_info, record_position, now) ==
    IF dict(vuln_record).exc # "none" THEN dict(vuln_record)
    ELSE LET enhanced_vuln ==
                 ("record_processed_at" :> now)
              @@ ("processing_date" :> IsoDate(now))
              @@ ("record_position" :> record_position)
              @@ ("source_system" :> "cisa_kev_catalog")
              @@ ("catalog_information" :> catalog_info)
              @@ dict(vuln_record).rec
         IN  ParseDateFields([exc |-> "none", rec |-> enhanced_vuln], vuln_record, 1)

\* ------------------------------------------------------------ transformer
\* The payload is a JSON value [t, d]; in a mapping the other keys hold
\* scalars and the key vulnerabilities holds [t, items]: t is the JSON type
\* and items what iterating the value yields: the items of a list, the
\* keys of a mapping, the characters of a string; null and a number ("int",
\* not 0; 0 behaves as null in both stages) yield nothing.
NoList == [t |-> "null", items |-> <<>>]
JList(items) == [t |-> "list", items |-> items]
JMapping(keys) == [t |-> "dict", items |-> keys]
JText(n) == [t |-> "str", items |-> [i \in 1..n |-> RawScalar("str")]]
JNumber == [t |-> "int", items |-> <<>>]

\* len(v) is defined: v is a list, a mapping or a string.
Sized(v) == v.t \in {"list", "dict", "str"}

\* `not v` for the vulnerabilities value.
NoRecords(v) == v.t = "null" \/ (Sized(v) /\ v.items = <<>>)

catalog_metadata(api_data, now) ==
    [ source_catalog_version |-> Get(api_data.d, "catalogVersion"),
      catalog_release_date   |-> Get(api_data.d, "dateReleased"),
      total_vulnerabilities  |-> Get(api_data.d, "count"),
      data_extraction_time   |-> IsoDateTime(now) ]

\* Variant: the first record whose enhancement raises ends the loop.
RECURSIVE ProcessLoop_Break(_, _, _, _)
ProcessLoop_Break(vulnerability_records, i, catalog_info, now) ==
    IF i > Len(vulnerability_records) THEN <<>>
    ELSE LET enhanced_record ==
                 _enhance_vulnerability_record(vulnerability_records[i],
                                               catalog_info, i - 1, now)
         IN  IF enhanced_record.exc = "none"
             THEN <<enhanced_record.rec>>
                  \o ProcessLoop_Break(vulnerability_records, i + 1, catalog_info, now)
             ELSE <<>>

\* Variant: a record is numbered by its place in the output list.
RECURSIVE ProcessLoop_OutputPosition(_, _, _, _)
ProcessLoop_OutputPosition(vulnerability_records, i, catalog_info, now) ==
    IF i > Len(vulnerability_records) THEN <<>>
    ELSE LET kept == Cardinality({k \in 1..(i - 1) :
                        _enhance_vulnerability_record(vulnerability_records[k],
                            catalog_info, k - 1, now).exc = "none"})
             enhanced_record ==
                 _enhance_vulnerability_record(vulnerability_records[i],
                                               catalog_info, kept, now)
             rest == ProcessLoop_OutputPosition(vulnerability_records, i + 1,
                                                catalog_info, now)
         IN  IF enhanced_record.exc = "none"
             THEN <<enhanced_record.rec>> \o rest
             ELSE rest

\* The loop of lines 110-121 from the 1-based position i on: a record
\* whose enhancement raises is skipped, every other one is appended.
RECURSIVE ProcessLoop(_, _, _, _)
ProcessLoop(vulnerability_records, i, catalog_info, now) ==
    IF i > Len(vulnerability_records) THEN <<>>
    ELSE LET enhanced_record ==
                 _enhance_vulnerability_record(vulnerability_records[i],
                                               catalog_info, i - 1, now)
             rest == ProcessLoop(vulnerability_records, i + 1, catalog_info, now)
         IN  IF enhanced_record.exc = "none"
             THEN <<enhanced_record.rec>> \o rest
             ELSE rest

\* The exception that leaves process_vulnerability_records: len() of a
\* number in line 98, outside the loop's try; "none" when it returns.
process_vulnerability_records_exc(api_data) ==
    IF api_data.t # "dict" \/ DOMAIN api_data.d = {} THEN "none"
    ELSE LET vulnerability_records ==
                 IF "vulnerabilities" \in DOMAIN api_data.d
                 THEN api_data.d["vulnerabilities"] ELSE JList(<<>>)
         IN  IF NoRecords(vulnerability_records) \/ Sized(vulnerability_records)
             THEN "none" ELSE "TypeError"

\* The list process_vulnerability_records returns (lines 86-124); <<>>
\* when it raises instead.
process_vulnerability_records(api_data, now) ==
    IF api_data.t # "dict" \/ DOMAIN api_data.d = {} THEN <<>>
    ELSE LET vulnerability_records ==
                 IF "vulnerabilities" \in DOMAIN api_data.d
                 THEN api_data.d["vulnerabilities"] ELSE JList(<<>>)
         IN  IF NoRecords(vulnerability_records) \/ ~Sized(vulnerability_records)
             THEN <<>>
             ELSE ProcessLoop(vulnerability_records.items, 1,
                              catalog_metadata(api_data, now), now)

\* -------------------------------------------------------------- extractor
\* An HTTP exchange: transport is "ok" or the requests exception raised by
\* requests.get, status the status code, body the decoded JSON value or
\* [t |-> "undecodable"] when the text is not JSON.
Response(transport, status, body) ==
    [transport |-> transport, status |-> status, body |-> body]

Undecodable == [t |-> "undecodable", d |-> EmptyDict]

\* Response.raise_for_status raises HTTPError for 4xx and 5xx codes.
raise_for_status(status) == 400 <= status /\ status < 600

\* Variant: the test for the vulnerabilities key (lines 61-62) is missing,
\* so .get('vulnerabilities', []) supplies an empty list.
fetch_vulnerability_data_NoKeyCheck(api_response) ==
    IF api_response.transport # "ok" THEN None
    ELSE IF raise_for_status(api_response.status) THEN None
    ELSE LET vulnerability_data == api_response.body IN
         IF vulnerability_data.t = "undecodable" THEN None
         ELSE IF vulnerability_data.t # "dict" THEN None
         ELSE IF "vulnerabilities" \in DOMAIN vulnerability_data.d
                 /\ ~Sized(vulnerability_data.d["vulnerabilities"]) THEN None
         ELSE vulnerability_data

\* fetch_vulnerability_data: the payload, or None after any exception
\* (the last one: len(vuln_list) of line 67 raising TypeError).
fetch_vulnerability_data(api_response) ==
    IF api_response.transport # "ok" THEN None
    ELSE IF raise_for_status(api_response.status) THEN None
    ELSE LET vulnerability_data == api_response.body IN
         IF vulnerability_data.t = "undecodable" THEN None
         ELSE IF vulnerability_data.t # "dict" THEN None
         ELSE IF "vulnerabilities" \notin DOMAIN vulnerability_data.d THEN None
         ELSE IF ~Sized(vulnerability_data.d["vulnerabilities"]) THEN None
         ELSE vulnerability_data

\* ------------------------------------------------------------------ store
\* The natural key of a document as the unique index sees it: a document
\* without the field is indexed under null.
KeyOf(doc) == Get(doc, "cveID")

\* insert_many gives every document an _id before anything is sent; the
\* ObjectId is modelled by the pair (tick of the call, position).
WithIds(docs, now) ==
    [i \in 1..Len(docs) |-> ("_id" :> <<now, i>>) @@ docs[i]]

\* Ordered bulk insert of docs[i..] into coll.  With the unique index on
\* cveID a document whose key is already stored stops the insert with
\* BulkWriteError; the server connection breaks (AutoReconnect) after
\* `written` documents when `err` is set.  Documents before the stop stay.
RECURSIVE InsertOrdered(_, _, _, _, _, _)
InsertOrdered(coll, docs, i, unique, written, err) ==
    IF i > Len(docs)
    THEN [coll |-> coll, exc |-> IF err THEN "AutoReconnect" ELSE "none"]
    ELSE IF err /\ i > written THEN [coll |-> coll, exc |-> "AutoReconnect"]
    ELSE IF unique /\ \E j \in 1..Len(coll) : KeyOf(coll[j]) = KeyOf(docs[i])
    THEN [coll |-> coll, exc |-> "BulkWriteError"]
    ELSE InsertOrdered(Append(coll, docs[i]), docs, i + 1, unique, written, err)

insert_many(coll, docs, idx, written, err) ==
    InsertOrdered(coll, docs, 1, "cveID" \in idx, written, err)

HasDuplicateKeys(coll) ==
    \E i, j \in 1..Len(coll) : i # j /\ KeyOf(coll[i]) = KeyOf(coll[j])

index_fields == <<"cveID", "vendorProject", "record_processed_at">>

\* _create_collection_indexes: the three create_index calls in order; the
\* first that raises (the unique build over duplicate keys, or the server
\* fault at call number `fault`, 0 = none) ends the method with a warning.
\* Returns the index set and the calls issued.
RECURSIVE CreateIndexes(_, _, _, _, _)
CreateIndexes(idx, coll, i, fault, issued) ==
    IF i > Len(index_fields) THEN [indexes |-> idx, issued |-> issued, warned |-> FALSE]
    ELSE LET field == index_fields[i]
             calls == Append(issued, field)
         IN  IF fault = i
                \/ (field = "cveID" /\ field \notin idx /\ HasDuplicateKeys(coll))
             THEN [indexes |-> idx, issued |-> calls, warned |-> TRUE]
             ELSE CreateIndexes(idx \cup {field}, coll, i + 1, fault, calls)

_create_collection_indexes(idx, coll, fault) == CreateIndexes(idx, coll, 1, fault, <<>>)

\* ------------------------------------------------------------------ state
VARIABLES
    state,                  \* orchestrator state (Idle, Extracting, ...)
    trace,                  \* orchestrator states entered in this run
    caller,                 \* "pipeline", or "direct" for a bare store call
    clock,                  \* logical time = number of invocations so far
    api_response,           \* the HTTP exchange of this run
    raw_vulnerability_data, \* result of fetch_vulnerability_data
    processed_data,         \* the batch (processed_records in the loader)
    lpc,                    \* position inside store_in_mongodb
    mongo_client,           \* local mongo_client: 0 = None, else client id
    connections,            \* every client ever constructed: "open", or
                            \* "closed" once close() was called on it
    retval,                 \* value store_in_mongodb is about to return
    store_result,           \* what the finished call gave its caller
    ops,                    \* store interactions of the current call
    index_warning,          \* _create_collection_indexes logged a failure
    collection,             \* documents of the target collection
    indexes,                \* indexed fields of the target collection
    before,                 \* collection, indexes and number of clients
                            \* when the current invocation began
    database_name           \* self.database_name: DB_NAME of the environment

vars == <<state, trace, caller, clock, api_response, raw_vulnerability_data,
          processed_data, lpc, mongo_client, connections, retval, store_result,
          ops, index_warning, collection, indexes, before, database_name>>

orch == <<state, trace, caller, clock, api_response, raw_vulnerability_data, before,
          database_name>>
store == <<collection, indexes>>

\* ----------------------------------------------------------------- inputs
SeqsUpTo(S, n) == UNION {[1..k -> S] : k \in 0..n}

Date_2021_05_01 == <<"2", "0", "2", "1", "-", "0", "5", "-", "0", "1">>
Date_2021_02_30 == <<"2", "0", "2", "1", "-", "0", "2", "-", "3", "0">>
Date_2024_2_29 == <<"2", "0", "2", "4", "-", "2", "-", "2", "9">>
Date_words == <<"s", "o", "o", "n">>
\* 2021-05-15 with the year and the last digit of the day in Arabic-Indic
\* digits.
Date_2021_05_15_ArabicIndic ==
    <<"U+0662", "U+0660", "U+0662", "U+0661", "-", "0", "5", "-", "1", "U+0665">>

\* The default of os.getenv("DB_NAME", ...) in __init__ (line 26).
DefaultDatabaseName ==
    <<"s", "e", "c", "u", "r", "i", "t", "y", "_",
      "i", "n", "t", "e", "l", "l", "i", "g", "e", "n", "c", "e">>

\* Values of self.database_name: DB_NAME unset, DB_NAME='' and DB_NAME='my db'.
DatabaseNames == {DefaultDatabaseName, <<>>, <<"m", "y", " ", "d", "b">>}

CveField(id) == "cveID" :> JStr(<<id>>)

WellFormedRecord ==
    RawDict(CveField("CVE-2021-1") @@ ("vendorProject" :> JStr(<<"Acme">>))
               @@ ("dateAdded" :> JStr(Date_2021_05_01)))

\* Raw records of the pipeline runs: a well-formed entry, an entry with an
\* unparseable dateAdded, and a null element.
RawRecords ==
    { WellFormedRecord,
      RawDict(CveField("CVE-2021-2") @@ ("dateAdded" :> JStr(Date_words))),
      RawScalar("null") }

Payload(items) ==
    [t |-> "dict",
     d |-> ("vulnerabilities" :> JList(items))
           @@ ("catalogVersion" :> JStr(<<"2021.05.01">>))
           @@ ("count" :> JInt(<<"1">>))]

Payloads == {Payload(items) : items \in SeqsUpTo(RawRecords, MaxRecords)}

\* The mapping {"": 1} under vulnerabilities: iterating it yields its one
\* key, the empty string.
EmptyKeyMapping == JMapping(<<RawScalar("emptystr")>>)

\* No exchange has taken place.
NoResponse == Response("none", 0, Undecodable)

\* What requests.get can come back with.
Responses ==
    { Response("Timeout", 0, Undecodable),
      Response("ConnectionError", 0, Undecodable),
      Response("ok", 503, Undecodable),
      Response("ok", 200, Undecodable),
      Response("ok", 200, [t |-> "list", d |-> EmptyDict]),
      Response("ok", 200, [t |-> "dict", d |-> EmptyDict]),
      Response("ok", 200, [t |-> "dict", d |-> ("count" :> JInt(<<"1">>))]),
      Response("ok", 200, [t |-> "dict", d |-> ("vulnerabilities" :> NoList)]),
      Response("ok", 200, [t |-> "dict", d |-> ("vulnerabilities" :> JNumber)]),
      Response("ok", 200, [t |-> "dict", d |-> ("vulnerabilities" :> JText(2))]),
      Response("ok", 200, [t |-> "dict", d |-> ("vulnerabilities" :> EmptyKeyMapping)]),
      Response("ok", 302, Payload(<<>>)),
      Response("ok", 302, Payload(<<WellFormedRecord>>)) }
    \cup {Response("ok", 200, p) : p \in Payloads}

\* Batches a direct caller of store_in_mongodb passes.
DirectBatches(now) ==
    {process_vulnerability_records(p, now) : p \in Payloads}

\* ---------------------------------------------------------------- actions
Init ==
    /\ state = "Idle"
    /\ trace = <<>>
    /\ caller = "pipeline"
    /\ clock = 0
    /\ api_response = NoResponse
    /\ raw_vulnerability_data = None
    /\ processed_data = <<>>
    /\ lpc = "idle"
    /\ mongo_client = 0
    /\ connections = <<>>
    /\ retval = "unset"
    /\ store_result = "unset"
    /\ ops = <<>>
    /\ index_warning = FALSE
    /\ collection = <<>>
    /\ indexes = {}
    /\ before = [collection |-> <<>>, indexes |-> {}, clients |-> 0]
    /\ database_name \in DatabaseNames

Resting == state \in {"Idle", "Succeeded", "Failed"} /\ lpc = "idle"

\* Entry of execute_complete_pipeline (lines 198-206).
StartPipeline ==
    /\ Resting
    /\ clock < MaxRuns
    /\ state' = "Extracting"
    /\ trace' = <<"Extracting">>
    /\ caller' = "pipeline"
    /\ clock' = clock + 1
    /\ api_response' = NoResponse
    /\ raw_vulnerability_data' = None
    /\ processed_data' = <<>>
    /\ mongo_client' = 0
    /\ retval' = "unset"
    /\ store_result' = "unset"
    /\ ops' = <<>>
    /\ index_warning' = FALSE
    /\ before' = [collection |-> collection, indexes |-> indexes,
                  clients |-> Len(connections)]
    /\ UNCHANGED <<lpc, connections, collection, indexes, database_name>>

\* `not x` for the value fetch returned: None and {} are falsy.
Falsy(data) == data.t = "null" \/ DOMAIN data.d = {}

\* Variant: the run goes on to the transformer whatever fetch returned.
Extract_NoShortCircuit ==
    /\ state = "Extracting"
    /\ \E response \in Responses :
         /\ api_response' = response
         /\ raw_vulnerability_data' = fetch_vulnerability_data(response)
         /\ state' = "Transforming"
         /\ trace' = Append(trace, "Transforming")
    /\ UNCHANGED <<caller, clock, processed_data, lpc, mongo_client, connections,
                   retval, store_result, ops, index_warning, collection, indexes,
                   before, database_name>>

\* Variant: a failed fetch is tried again.
Extract_Retry ==
    /\ state = "Extracting"
    /\ \E response \in Responses :
         LET data == fetch_vulnerability_data(response)
             to == IF Falsy(data) THEN "Extracting" ELSE "Transforming"
         IN  /\ api_response' = response
             /\ raw_vulnerability_data' = data
             /\ state' = to
             /\ trace' = Append(trace, to)
    /\ UNCHANGED <<caller, clock, processed_data, lpc, mongo_client, connections,
                   retval, store_result, ops, index_warning, collection, indexes,
                   before, database_name>>

\* PHASE 1 (lines 207-211).
Extract ==
    /\ state = "Extracting"
    /\ \E response \in Responses :
         LET data == fetch_vulnerability_data(response)
             to == IF Falsy(data) THEN "Failed" ELSE "Transforming"
         IN  /\ api_response' = response
             /\ raw_vulnerability_data' = data
             /\ state' = to
             /\ trace' = Append(trace, to)
    /\ UNCHANGED <<caller, clock, processed_data, lpc, mongo_client, connections,
                   retval, store_result, ops, index_warning, collection, indexes,
                   before, database_name>>

\* Variant: the batch goes to the loader without the emptiness test.
Transform_NoEmptyCheck ==
    /\ state = "Transforming"
    /\ LET raised == process_vulnerability_records_exc(raw_vulnerability_data) # "none"
           to == IF raised THEN "Failed" ELSE "Loading"
       IN  /\ processed_data' =
                 process_vulnerability_records(raw_vulnerability_data, clock)
           /\ state' = to
           /\ trace' = Append(trace, to)
           /\ lpc' = IF raised THEN "idle" ELSE "start"
    /\ UNCHANGED <<caller, clock, api_response, raw_vulnerability_data, mongo_client,
                   connections, retval, store_result, ops, index_warning, collection,
                   indexes, before, database_name>>

\* PHASE 2 (lines 214-221): an empty batch ends the run, any other batch
\* is handed to store_in_mongodb; an exception leaving the transformer is
\* caught in lines 237-239 and ends the run too (processed_data is never
\* bound).
Transform ==
    /\ state = "Transforming"
    /\ LET raised == process_vulnerability_records_exc(raw_vulnerability_data) # "none"
           batch == process_vulnerability_records(raw_vulnerability_data, clock)
           to == IF raised \/ batch = <<>> THEN "Failed" ELSE "Loading"
       IN  /\ processed_data' = batch
           /\ state' = to
           /\ trace' = Append(trace, to)
           /\ lpc' = IF raised \/ batch = <<>> THEN "idle" ELSE "start"
    /\ UNCHANGED <<caller, clock, api_response, raw_vulnerability_data, mongo_client,
                   connections, retval, store_result, ops, index_warning, collection,
                   indexes, before, database_name>>

\* A caller other than the pipeline invokes store_in_mongodb(batch).
CallStoreDirect ==
    /\ Resting
    /\ clock < MaxRuns
    /\ \E batch \in DirectBatches(clock + 1) : processed_data' = batch
    /\ state' = "Idle"
    /\ trace' = <<>>
    /\ caller' = "direct"
    /\ clock' = clock + 1
    /\ api_response' = NoResponse
    /\ raw_vulnerability_data' = None
    /\ lpc' = "start"
    /\ mongo_client' = 0
    /\ retval' = "unset"
    /\ store_result' = "unset"
    /\ ops' = <<>>
    /\ index_warning' = FALSE
    /\ before' = [collection |-> collection, indexes |-> indexes,
                  clients |-> Len(connections)]
    /\ UNCHANGED <<connections, collection, indexes, database_name>>

\* A store interaction as logged in ops: the call, the client it went
\* through, and whether that client was open when the call was made.
Op(name, client, conns) ==
    [op |-> name, client |-> client,
     live |-> client \in 1..Len(conns) /\ conns[client] = "open"]

\* pymongo's check of a database name (Database.__init__, reached from
\* mongo_client[name]): the empty name and a name holding one of the
\* characters blank . $ / \ NUL " are refused, "$external" is let through.
\* NUL is written "U+0000".
InvalidDatabaseName(name) ==
    /\ name # <<"$", "e", "x", "t", "e", "r", "n", "a", "l">>
    /\ \/ name = <<>>
       \/ \E i \in 1..Len(name) :
             name[i] \in {" ", ".", "$", "/", "\\", "U+0000", "\""}

\* The except clause of store_in_mongodb (lines 178-180).
StorageError ==
    /\ retval' = "False"
    /\ lpc' = "finally"

\* Variant: the empty batch is not refused.
StoreEnter_NoEmptyCheck ==
    /\ lpc = "start"
    /\ lpc' = "connect"
    /\ UNCHANGED <<orch, processed_data, mongo_client, connections, retval,
                   store_result, ops, index_warning, store>>

\* Lines 152-158: the empty batch returns False before the try statement.
StoreEnter ==
    /\ lpc = "start"
    /\ IF processed_data = <<>>
       THEN /\ store_result' = "False"
            /\ lpc' = "returned"
       ELSE /\ lpc' = "connect"
            /\ UNCHANGED store_result
    /\ UNCHANGED <<orch, processed_data, mongo_client, connections, retval, ops,
                   index_warning, store>>

\* Lines 160-162: MongoClient(self.mongo_uri) builds a new client, or
\* raises; mongo_client[self.database_name] then raises InvalidName for a
\* name pymongo refuses, with the client already bound (the finally clause
\* closes it).  TARGET_COLLECTION is a valid collection name, so line 162
\* does not raise.
Connect ==
    /\ lpc = "connect"
    /\ \E ok \in BOOLEAN :
         IF ok
         THEN LET conns == Append(connections, "open") IN
              /\ connections' = conns
              /\ mongo_client' = Len(conns)
              /\ ops' = Append(ops, Op("MongoClient", Len(conns), conns))
              /\ IF InvalidDatabaseName(database_name)
                 THEN StorageError
                 ELSE /\ lpc' = "count"
                      /\ UNCHANGED retval
         ELSE /\ StorageError
              /\ UNCHANGED <<connections, mongo_client, ops>>
    /\ UNCHANGED <<orch, processed_data, store_result, index_warning, store>>

\* Variant: the collection is cleared before the count is known.
Count_ClearsFirst ==
    /\ lpc = "count"
    /\ ops' = Append(ops, Op("count_documents", mongo_client, connections))
    /\ collection' = <<>>
    /\ \E ok \in BOOLEAN :
         IF ok
         THEN /\ lpc' = "insert"
              /\ UNCHANGED retval
         ELSE StorageError
    /\ UNCHANGED <<orch, processed_data, mongo_client, connections, store_result,
                   index_warning, indexes>>

\* Variant: the existing documents are never deleted.
Count_NeverDeletes ==
    /\ lpc = "count"
    /\ ops' = Append(ops, Op("count_documents", mongo_client, connections))
    /\ \E ok \in BOOLEAN :
         IF ok
         THEN /\ lpc' = "insert"
              /\ UNCHANGED retval
         ELSE StorageError
    /\ UNCHANGED <<orch, processed_data, mongo_client, connections, store_result,
                   index_warning, store>>

\* Variant: the existing documents are deleted only when there are
\* several (existing_record_count > 1).
Count_DeleteAboveOne ==
    /\ lpc = "count"
    /\ ops' = Append(ops, Op("count_documents", mongo_client, connections))
    /\ \E ok \in BOOLEAN :
         IF ok
         THEN /\ lpc' = IF Len(collection) > 1 THEN "delete" ELSE "insert"
              /\ UNCHANGED retval
         ELSE StorageError
    /\ UNCHANGED <<orch, processed_data, mongo_client, connections, store_result,
                   index_warning, store>>

\* Lines 165-166: count_documents({}) and the branch on its result.
Count ==
    /\ lpc = "count"
    /\ ops' = Append(ops, Op("count_documents", mongo_client, connections))
    /\ \E ok \in BOOLEAN :
         IF ok
         THEN /\ lpc' = IF Len(collection) > 0 THEN "delete" ELSE "insert"
              /\ UNCHANGED retval
         ELSE StorageError
    /\ UNCHANGED <<orch, processed_data, mongo_client, connections, store_result,
                   index_warning, store>>

\* Variant: delete_one instead of delete_many.
Delete_One ==
    /\ lpc = "delete"
    /\ ops' = Append(ops, Op("delete_many", mongo_client, connections))
    /\ \E err \in BOOLEAN :
         IF err
         THEN /\ UNCHANGED collection
              /\ StorageError
         ELSE /\ collection' = Tail(collection)
              /\ lpc' = "insert"
              /\ UNCHANGED retval
    /\ UNCHANGED <<orch, processed_data, mongo_client, connections, store_result,
                   index_warning, indexes>>

\* Line 167: delete_many({}); when it raises, the server had removed the
\* first n documents.
Delete ==
    /\ lpc = "delete"
    /\ ops' = Append(ops, Op("delete_many", mongo_client, connections))
    /\ \E n \in 0..Len(collection), err \in BOOLEAN :
         /\ ~err => n = Len(collection)
         /\ collection' = SubSeq(collection, n + 1, Len(collection))
         /\ IF err THEN StorageError
            ELSE /\ lpc' = "insert"
                 /\ UNCHANGED retval
    /\ UNCHANGED <<orch, processed_data, mongo_client, connections, store_result,
                   index_warning, indexes>>

\* Variant: delete and insert form one transaction; a failed insert puts
\* the documents of before the call back.
Insert_Rollback ==
    /\ lpc = "insert"
    /\ ops' = Append(ops, Op("insert_many", mongo_client, connections))
    /\ \E written \in 0..Len(processed_data), err \in BOOLEAN :
         LET docs == WithIds(processed_data, clock)
             res == insert_many(collection, docs, indexes, written, err)
         IN  /\ ~err => written = Len(processed_data)
             /\ processed_data' = docs
             /\ IF res.exc = "none"
                THEN /\ collection' = res.coll
                     /\ lpc' = "index"
                     /\ UNCHANGED retval
                ELSE /\ collection' = before.collection
                     /\ StorageError
    /\ UNCHANGED <<orch, mongo_client, connections, store_result, index_warning,
                   indexes>>

\* Variant: index creation follows the insert whether or not it raised.
Insert_IndexRegardless ==
    /\ lpc = "insert"
    /\ ops' = Append(ops, Op("insert_many", mongo_client, connections))
    /\ \E written \in 0..Len(processed_data), err \in BOOLEAN :
         LET docs == WithIds(processed_data, clock)
             res == insert_many(collection, docs, indexes, written, err)
         IN  /\ ~err => written = Len(processed_data)
             /\ processed_data' = docs
             /\ collection' = res.coll
    /\ lpc' = "index"
    /\ UNCHANGED <<orch, mongo_client, connections, retval, store_result,
                   index_warning, indexes>>

\* Lines 170-171: insert_many(processed_records).
Insert ==
    /\ lpc = "insert"
    /\ ops' = Append(ops, Op("insert_many", mongo_client, connections))
    /\ \E written \in 0..Len(processed_data), err \in BOOLEAN :
         LET docs == WithIds(processed_data, clock)
             res == insert_many(collection, docs, indexes, written, err)
         IN  /\ ~err => written = Len(processed_data)
             /\ processed_data' = docs
             /\ collection' = res.coll
             /\ IF res.exc = "none"
                THEN /\ lpc' = "index"
                     /\ UNCHANGED retval
                ELSE StorageError
    /\ UNCHANGED <<orch, mongo_client, connections, store_result, index_warning,
                   indexes>>

\* Variant: a failure of index creation is a storage error.
CreateIndex_Fatal ==
    /\ lpc = "index"
    /\ \E fault \in 0..Len(index_fields) :
         LET res == _create_collection_indexes(indexes, collection, fault) IN
         /\ indexes' = res.indexes
         /\ index_warning' = res.warned
         /\ ops' = ops \o [i \in 1..Len(res.issued) |->
                              Op("create_index", mongo_client, connections)]
         /\ retval' = IF res.warned THEN "False" ELSE "True"
    /\ lpc' = "finally"
    /\ UNCHANGED <<orch, processed_data, mongo_client, connections, store_result,
                   collection>>

\* Lines 173-176: _create_collection_indexes, then return True.
CreateIndex ==
    /\ lpc = "index"
    /\ \E fault \in 0..Len(index_fields) :
         LET res == _create_collection_indexes(indexes, collection, fault) IN
         /\ indexes' = res.indexes
         /\ index_warning' = res.warned
         /\ ops' = ops \o [i \in 1..Len(res.issued) |->
                              Op("create_index", mongo_client, connections)]
    /\ retval' = "True"
    /\ lpc' = "finally"
    /\ UNCHANGED <<orch, processed_data, mongo_client, connections, store_result,
                   collection>>

\* Variant: the client is closed on the successful path only.
Finally_CloseOnSuccess ==
    /\ lpc = "finally"
    /\ IF mongo_client # 0 /\ retval = "True"
       THEN /\ connections' = [connections EXCEPT ![mongo_client] = "closed"]
            /\ ops' = Append(ops, Op("close", mongo_client, connections))
            /\ \E ok \in BOOLEAN :
                 store_result' = IF ok THEN retval ELSE "raised"
       ELSE /\ store_result' = retval
            /\ UNCHANGED <<connections, ops>>
    /\ lpc' = "returned"
    /\ UNCHANGED <<orch, processed_data, mongo_client, retval, index_warning, store>>

\* Lines 181-184: close the client if one was built, then hand retval to
\* the caller; an exception raised by close() replaces the return value.
Finally ==
    /\ lpc = "finally"
    /\ IF mongo_client # 0
       THEN /\ connections' = [connections EXCEPT ![mongo_client] = "closed"]
            /\ ops' = Append(ops, Op("close", mongo_client, connections))
            /\ \E ok \in BOOLEAN :
                 store_result' = IF ok THEN retval ELSE "raised"
       ELSE /\ store_result' = retval
            /\ UNCHANGED <<connections, ops>>
    /\ lpc' = "returned"
    /\ UNCHANGED <<orch, processed_data, mongo_client, retval, index_warning, store>>

\* Variant: no except clause around the stages; an exception that left
\* store_in_mongodb leaves execute_complete_pipeline too.
Finish_NoCatch ==
    /\ state = "Loading"
    /\ lpc = "returned"
    /\ LET to == IF store_result = "True" THEN "Succeeded"
                 ELSE IF store_result = "raised" THEN "Raised" ELSE "Failed" IN
         /\ state' = to
         /\ trace' = Append(trace, to)
    /\ lpc' = "idle"
    /\ UNCHANGED <<caller, clock, api_response, raw_vulnerability_data, processed_data,
                   mongo_client, connections, retval, store_result, ops,
                   index_warning, store, before, database_name>>

\* Variant: the loader's result is not tested.
Finish_IgnoresResult ==
    /\ state = "Loading"
    /\ lpc = "returned"
    /\ state' = "Succeeded"
    /\ trace' = Append(trace, "Succeeded")
    /\ lpc' = "idle"
    /\ UNCHANGED <<caller, clock, api_response, raw_vulnerability_data, processed_data,
                   mongo_client, connections, retval, store_result, ops,
                   index_warning, store, before, database_name>>

\* Lines 221-239: the run ends on the loader's result; an exception that
\* left store_in_mongodb is caught by the except clause of the pipeline.
Finish ==
    /\ state = "Loading"
    /\ lpc = "returned"
    /\ LET to == IF store_result = "True" THEN "Succeeded" ELSE "Failed" IN
         /\ state' = to
         /\ trace' = Append(trace, to)
    /\ lpc' = "idle"
    /\ UNCHANGED <<caller, clock, api_response, raw_vulnerability_data, processed_data,
                   mongo_client, connections, retval, store_result, ops,
                   index_warning, store, before, database_name>>

\* The bare store call is back at its caller.
DirectReturn ==
    /\ caller = "direct"
    /\ lpc = "returned"
    /\ lpc' = "idle"
    /\ UNCHANGED <<orch, processed_data, mongo_client, connections, retval,
                   store_result, ops, index_warning, store>>

Next ==
    \/ StartPipeline
    \/ Extract
    \/ Transform
    \/ CallStoreDirect
    \/ StoreEnter
    \/ Connect
    \/ Count
    \/ Delete
    \/ Insert
    \/ CreateIndex
    \/ Finally
    \/ Finish
    \/ DirectReturn

Spec == Init /\ [][Next]_vars

\* ------------------------------------------------ the transformer by itself
\* process_vulnerability_records applied to every payload of a richer input
\* set: values of the two date fields of every JSON type, records with and
\* without the natural key, elements that are no mapping.
DateValues ==
    { JStr(Date_2021_05_01), JStr(Date_2024_2_29), JStr(Date_2021_02_30),
      JStr(Date_2021_05_15_ArabicIndic), JStr(Date_words), JStr(<<>>),
      JInt(<<"2", "0", "2", "1", "0", "5", "0", "1">>),
      JInt(<<"0">>), JNull }

DateAddedOptions == {EmptyDict} \cup {("dateAdded" :> v) : v \in DateValues}

DueDateOptions ==
    { EmptyDict, ("dueDate" :> JStr(Date_2021_05_01)),
      ("dueDate" :> JStr(Date_words)) }

RichRecords ==
    {RawDict(CveField("CVE-2021-1") @@ a @@ b) :
        a \in DateAddedOptions, b \in DueDateOptions}
    \cup { RawDict(CveField("CVE-2021-2")),
           RawDict("vendorProject" :> JStr(<<"Acme">>)),
           RawScalar("null"), RawScalar("int"), RawScalar("list"),
           RawScalar("str"), RawScalar("emptystr") }

RichPayloads ==
    {Payload(items) : items \in SeqsUpTo(RichRecords, MaxRichRecords)}
    \cup { None, [t |-> "dict", d |-> EmptyDict],
           [t |-> "dict", d |-> ("count" :> JInt(<<"1">>))],
           [t |-> "dict", d |-> ("vulnerabilities" :> NoList)],
           [t |-> "dict", d |-> ("vulnerabilities" :> JNumber)],
           [t |-> "dict", d |-> ("vulnerabilities" :> JText(2))],
           [t |-> "dict", d |-> ("vulnerabilities" :> EmptyKeyMapping)] }

InitTransform ==
    /\ state = "Transforming"
    /\ trace = <<"Extracting", "Transforming">>
    /\ caller = "pipeline"
    /\ clock = 1
    /\ api_response = NoResponse
    /\ raw_vulnerability_data \in RichPayloads
    /\ processed_data = <<>>
    /\ lpc = "idle"
    /\ mongo_client = 0
    /\ connections = <<>>
    /\ retval = "unset"
    /\ store_result = "unset"
    /\ ops = <<>>
    /\ index_warning = FALSE
    /\ collection = <<>>
    /\ indexes = {}
    /\ before = [collection |-> <<>>, indexes |-> {}, clients |-> 0]
    /\ database_name = DefaultDatabaseName

NextTransform == Transform

SpecTransform == InitTransform /\ [][NextTransform]_vars

\* --------------------------------------------------- claims on the transformer
\* The raw records handed to the transformer in this run.
RawItems ==
    IF raw_vulnerability_data.t = "dict"
       /\ "vulnerabilities" \in DOMAIN raw_vulnerability_data.d
    THEN raw_vulnerability_data.d["vulnerabilities"].items
    ELSE <<>>

\* The transformer has returned in this run.
Transformed ==
    /\ caller = "pipeline"
    /\ Len(trace) >= 3
    /\ trace[2] = "Transforming"

\* Positions (1-based) of the raw records whose enhancement does not raise.
Enhanced ==
    {i \in 1..Len(RawItems) :
        _enhance_vulnerability_record(RawItems[i],
            catalog_metadata(raw_vulnerability_data, clock), i - 1, clock).exc = "none"}

\* The j-th smallest position of Enhanced.
NthEnhanced(j) ==
    CHOOSE i \in Enhanced : Cardinality({k \in Enhanced : k < i}) = j - 1

\* C3: with N raw records of which M are enhanced without raising, the
\* transformer returns exactly M records, and the j-th returned record has
\* the cveID (present or absent, same value) of the j-th such raw record.
C3_BatchSizeAndKeys ==
    Transformed =>
        /\ Len(processed_data) = Cardinality(Enhanced)
        /\ \A j \in 1..Len(processed_data) :
              LET raw == RawItems[NthEnhanced(j)].d IN
              /\ ("cveID" \in DOMAIN processed_data[j]) = ("cveID" \in DOMAIN raw)
              /\ KeyOf(processed_data[j]) = KeyOf(raw)

C3_Witness ==
    /\ Transformed
    /\ Len(RawItems) = 2
    /\ Cardinality(Enhanced) = 1
    /\ Len(processed_data) = 1
    /\ KeyOf(processed_data[1]) = JStr(<<"CVE-2021-1">>)

\* C4: a raw record whose enhancement raises has no record in the batch,
\* every record that enhances (also one after a failing record) has one,
\* and the batch is non-empty when some record enhances.
C4_PartialFailureIsolation ==
    Transformed =>
        /\ \A i \in 1..Len(RawItems) :
              (i \in Enhanced) =
                 (\E j \in 1..Len(processed_data) :
                     processed_data[j]["record_position"] = i - 1)
        /\ (Enhanced # {} => processed_data # <<>>)
        /\ state \in {"Loading", "Succeeded", "Failed"}

C4_Witness ==
    /\ Transformed
    /\ \E i, k \in 1..Len(RawItems) : i < k /\ i \notin Enhanced /\ k \in Enhanced
    /\ processed_data # <<>>
    /\ state = "Loading"

\* C5 (as claimed): a mapping record whose dateAdded or dueDate is present,
\* non-empty and not parseable as %Y-%m-%d is in the batch, without the
\* derived <field>_datetime and with the original value unchanged.
C5_UnparseableDateKept ==
    Transformed =>
        \A i \in 1..Len(RawItems) :
          \A f \in {"dateAdded", "dueDate"} :
            (/\ RawItems[i].t = "dict"
             /\ f \in DOMAIN RawItems[i].d
             /\ Truthy(RawItems[i].d[f])
             /\ strptime(RawItems[i].d[f]).exc # "none")
            => \E j \in 1..Len(processed_data) :
                  /\ processed_data[j]["record_position"] = i - 1
                  /\ DatetimeKey(f) \notin DOMAIN processed_data[j]
                  /\ processed_data[j][f] = RawItems[i].d[f]

\* ------------------------------------------------------ claims on the pipeline
Issued(name) == \E k \in 1..Len(ops) : ops[k].op = name

\* An invocation of execute_complete_pipeline has ended in Failed.
RunFailed == caller = "pipeline" /\ state = "Failed"

\* C1 (as claimed): after a pipeline run that ends in failure the target
\* collection holds exactly the documents it held before the run.
C1_FailedRunLeavesStore ==
    RunFailed => collection = before.collection

\* C1 (amended): a failed run that issued neither delete_many nor insert_many
\* (failure in extract, in transform, on connecting or on counting) leaves
\* the collection as it was; after any failed run every stored document is
\* a document from before the run or a document of the new batch.
C1_FailedRunBeforeWriteLeavesStore ==
    RunFailed =>
        /\ (~Issued("delete_many") /\ ~Issued("insert_many"))
              => collection = before.collection
        /\ \A k \in 1..Len(collection) :
              \/ \E o \in 1..Len(before.collection) :
                    collection[k] = before.collection[o]
              \/ \E n \in 1..Len(processed_data) :
                    collection[k] = processed_data[n]

C1_Witness ==
    /\ RunFailed
    /\ Issued("count_documents")
    /\ ~Issued("delete_many")
    /\ before.collection # <<>>
    /\ collection = before.collection

\* The run has left Extracting on the exchange api_response, and the
\* transformer and the loader were not entered: the run is Failed right
\* after Extracting, no client is built and no store operation is issued.
HaltedAfterExtract ==
    /\ state = "Failed"
    /\ trace = <<"Extracting", "Failed">>
    /\ raw_vulnerability_data = None
    /\ processed_data = <<>>
    /\ lpc = "idle"
    /\ mongo_client = 0
    /\ ops = <<>>
    /\ Len(connections) = before.clients
    /\ collection = before.collection
    /\ indexes = before.indexes

\* The body is undecodable or of the wrong shape: no mapping, or a mapping
\* without the key vulnerabilities.
WrongBody(r) ==
    \/ r.body.t # "dict"
    \/ "vulnerabilities" \notin DOMAIN r.body.d

\* C2 (as claimed): after a transport failure, a status outside 200..299,
\* an undecodable body or a wrongly shaped body the run is Failed right
\* after Extracting, and neither the transformer nor the loader ran.
C2_NonSuccessStatusHaltsRun ==
    (caller = "pipeline" /\ state # "Extracting" /\ api_response # NoResponse
        /\ (\/ api_response.transport \in {"Timeout", "ConnectionError"}
            \/ api_response.status \notin 200..299
            \/ WrongBody(api_response)))
    => HaltedAfterExtract

\* The exchange is one the extractor reports as failure: transport error,
\* status 4xx or 5xx, undecodable body, or a body of the wrong shape (also
\* a mapping that holds null or a number under vulnerabilities).
FailedExchange(r) ==
    \/ r.transport \in {"Timeout", "ConnectionError"}
    \/ r.status \in 400..599
    \/ WrongBody(r)
    \/ r.body.d["vulnerabilities"].t \in {"null", "int"}

\* C2 (amended): when the extractor fails (transport failure, status 4xx or
\* 5xx, undecodable or wrongly shaped body), the run is Failed right after
\* Extracting; the transformer and the loader are not entered, no client
\* is built and no store operation is issued.
C2_ExtractFailureHaltsRun ==
    (caller = "pipeline" /\ state # "Extracting" /\ api_response # NoResponse
        /\ FailedExchange(api_response))
    => HaltedAfterExtract

C2_Witness ==
    /\ caller = "pipeline"
    /\ api_response.transport = "ok"
    /\ api_response.status = 503
    /\ state = "Failed"
    /\ ops = <<>>
    /\ before.collection # <<>>

\* store_in_mongodb has returned to its caller.
StoreReturned == lpc \in {"returned", "idle"} /\ store_result # "unset"

\* C6 (as claimed): once store_in_mongodb was called with a non-empty batch
\* on a collection of K > 0 documents, the collection holds exactly the
\* documents of the batch.
C6_LoadReplacesCollection ==
    (StoreReturned /\ processed_data # <<>> /\ before.collection # <<>>)
    => /\ collection = processed_data
       /\ \A o \in 1..Len(before.collection) :
             \A k \in 1..Len(collection) : collection[k] # before.collection[o]

\* C6 (amended): the same, for a call that returns True.
C6_SuccessfulLoadReplacesCollection ==
    (StoreReturned /\ store_result = "True" /\ before.collection # <<>>)
    => /\ processed_data # <<>>
       /\ collection = processed_data
       /\ \A o \in 1..Len(before.collection) :
             \A k \in 1..Len(collection) : collection[k] # before.collection[o]

C6_Witness ==
    /\ StoreReturned
    /\ store_result = "True"
    /\ Len(before.collection) = 2
    /\ Len(collection) = 1
    /\ Issued("delete_many")

\* C7: store_in_mongodb called with an empty batch returns False, builds no
\* client, issues no store operation and leaves collection and indexes.
C7_EmptyBatchRefused ==
    (caller = "direct" /\ processed_data = <<>> /\ lpc # "start")
    => /\ lpc \in {"returned", "idle"}
       /\ store_result = "False"
       /\ mongo_client = 0
       /\ ops = <<>>
       /\ Len(connections) = before.clients
       /\ collection = before.collection
       /\ indexes = before.indexes

C7_Witness ==
    /\ caller = "direct"
    /\ processed_data = <<>>
    /\ lpc = "returned"
    /\ store_result = "False"
    /\ before.collection # <<>>
    /\ before.indexes # {}

\* C8: when store_in_mongodb has returned, every client is closed; every
\* store interaction of a call went through a client built by that call
\* and open at the time.
C8_ConnectionScoped ==
    /\ lpc \in {"returned", "idle"}
          => \A c \in 1..Len(connections) : connections[c] = "closed"
    /\ \A k \in 1..Len(ops) :
          /\ ops[k].live
          /\ ops[k].client = before.clients + 1
    /\ Len(connections) <= before.clients + 1

C8_Witness ==
    /\ lpc = "returned"
    /\ store_result = "False"
    /\ Issued("insert_many")
    /\ Issued("close")
    /\ before.clients = 1
    /\ connections = <<"closed", "closed">>

\* C9: the pipeline is always in one of its six states, and a run whose
\* loader let an exception escape still ends in Failed, like every run in
\* which a stage reported failure.
C9_NoFaultPropagates ==
    /\ state \in {"Idle", "Extracting", "Transforming", "Loading",
                  "Succeeded", "Failed"}
    /\ (caller = "pipeline" /\ lpc = "idle" /\ Len(trace) >= 1
           /\ state \notin {"Extracting", "Transforming"})
       => /\ state \in {"Succeeded", "Failed"}
          /\ trace[Len(trace)] = state
          /\ store_result \in {"raised", "False"} => state = "Failed"

C9_Witness ==
    /\ caller = "pipeline"
    /\ store_result = "raised"
    /\ lpc = "idle"
    /\ state = "Failed"

\* C10 (as claimed): once index creation has run (the bulk insert
\* succeeded), store_in_mongodb returns True whether or not index creation
\* failed, and the run ends in Succeeded.
C10_InsertSuccessReturnsTrue ==
    Issued("create_index")
    => /\ retval = "True"
       /\ StoreReturned => store_result = "True"
       /\ (caller = "pipeline" /\ lpc = "idle") => state = "Succeeded"

\* C10 (amended): once index creation has run (the bulk insert succeeded),
\* the value store_in_mongodb is about to return is True whether or not
\* index creation failed; unless close() raises in the finally clause, the
\* call returns True and the run that gets this value ends in Succeeded.
C10_IndexFailureTolerated ==
    Issued("create_index")
    => /\ retval = "True"
       /\ (StoreReturned /\ store_result # "raised") => store_result = "True"
       /\ (caller = "pipeline" /\ lpc = "idle" /\ store_result # "raised")
             => state = "Succeeded"

C10_Witness ==
    /\ Issued("create_index")
    /\ index_warning
    /\ caller = "pipeline"
    /\ store_result = "True"
    /\ state = "Succeeded"

\* The payload of this run is a mapping whose vulnerabilities list is empty.
EmptyCatalog ==
    /\ raw_vulnerability_data.t = "dict"
    /\ "vulnerabilities" \in DOMAIN raw_vulnerability_data.d
    /\ raw_vulnerability_data.d["vulnerabilities"] = JList(<<>>)

\* C11: a payload with an empty vulnerabilities list gives an empty batch,
\* and the run ends in Failed right after Transforming: the loader is not
\* entered, no client is built and no store operation is issued.
C11_EmptyCatalogFailsRun ==
    (caller = "pipeline" /\ EmptyCatalog /\ state # "Transforming")
    => /\ processed_data = <<>>
       /\ state = "Failed"
       /\ trace = <<"Extracting", "Transforming", "Failed">>
       /\ lpc = "idle"
       /\ store_result = "unset"
       /\ mongo_client = 0
       /\ ops = <<>>
       /\ Len(connections) = before.clients
       /\ collection = before.collection

C11_Witness ==
    /\ caller = "pipeline"
    /\ EmptyCatalog
    /\ api_response.status = 200
    /\ state = "Failed"
    /\ processed_data = <<>>
    /\ before.collection # <<>>

\* The transitions of the orchestrator inside one run.
RunTransitions ==
    { <<"Extracting", "Transforming">>, <<"Extracting", "Failed">>,
      <<"Transforming", "Loading">>, <<"Transforming", "Failed">>,
      <<"Loading", "Succeeded">>, <<"Loading", "Failed">> }

\* C12: every step of a run moves the orchestrator along Extracting ->
\* Transforming -> Loading -> {Succeeded, Failed} or to Failed, never
\* enters a state twice, enters Transforming only with a payload and
\* Loading only with a non-empty batch; the loader runs only in Loading,
\* and a run starts only from a resting orchestrator.
C12_StageOrder ==
    [][ /\ (caller' = "pipeline" /\ trace' # trace) =>
              /\ trace' # <<>>
              /\ trace'[Len(trace')] = state'
              /\ \A i, j \in 1..Len(trace') : i # j => trace'[i] # trace'[j]
              /\ IF state' = "Extracting"
                 THEN /\ state \in {"Idle", "Succeeded", "Failed"}
                      /\ lpc = "idle"
                      /\ trace' = <<"Extracting">>
                 ELSE /\ <<state, state'>> \in RunTransitions
                      /\ trace' = Append(trace, state')
              /\ state' = "Transforming" =>
                    /\ raw_vulnerability_data'.t = "dict"
                    /\ "vulnerabilities" \in DOMAIN raw_vulnerability_data'.d
              /\ state' = "Loading" => processed_data' # <<>>
        /\ (caller' = "pipeline" /\ trace' = trace) => state' = state
        /\ (caller' = "pipeline" /\ lpc' # "idle") => state' = "Loading"
      ]_vars

C12_Witness ==
    /\ caller = "pipeline"
    /\ trace = <<"Extracting", "Transforming", "Loading", "Succeeded">>
    /\ state = "Succeeded"
    /\ clock = 2

\* The run entered Loading and store_in_mongodb is back at the pipeline.
LoadStageOver ==
    /\ caller = "pipeline"
    /\ \E i \in 1..Len(trace) : trace[i] = "Loading"
    /\ state # "Loading"

\* C13: a run that went through Loading is Succeeded exactly when
\* store_in_mongodb returned True, and a Succeeded run went through all
\* three stages with a payload, a non-empty batch and a True load.
C13_TerminalFollowsLoader ==
    /\ LoadStageOver =>
          /\ state \in {"Succeeded", "Failed"}
          /\ (state = "Succeeded") = (store_result = "True")
    /\ (caller = "pipeline" /\ state = "Succeeded") =>
          /\ trace = <<"Extracting", "Transforming", "Loading", "Succeeded">>
          /\ ~Falsy(raw_vulnerability_data)
          /\ processed_data # <<>>
          /\ store_result = "True"

C13_Witness ==
    /\ LoadStageOver
    /\ state = "Failed"
    /\ store_result = "False"
    /\ Issued("count_documents")
    /\ ~Issued("insert_many")

\* C14: what fetch_vulnerability_data hands to the pipeline is None or the
\* response's mapping with the key vulnerabilities; a body that is no
\* mapping, or a mapping without that key, gives None and a Failed run, and
\* the call always returns (the run leaves Extracting).
C14_FetchResultShape ==
    (caller = "pipeline" /\ api_response # NoResponse)
    => /\ state # "Extracting"
       /\ \/ raw_vulnerability_data = None
          \/ /\ raw_vulnerability_data.t = "dict"
             /\ "vulnerabilities" \in DOMAIN raw_vulnerability_data.d
             /\ raw_vulnerability_data = api_response.body
       /\ (\/ api_response.body.t # "dict"
           \/ "vulnerabilities" \notin DOMAIN api_response.body.d)
          => /\ raw_vulnerability_data = None
             /\ state = "Failed"
             /\ processed_data = <<>>

C14_Witness ==
    /\ caller = "pipeline"
    /\ api_response.transport = "ok"
    /\ api_response.status = 200
    /\ api_response.body.t = "dict"
    /\ DOMAIN api_response.body.d = {"count"}
    /\ raw_vulnerability_data = None
    /\ state = "Failed"

\* C15: the j-th record of the batch carries as record_position the
\* zero-based index its raw record has in the payload, so positions grow
\* strictly along the batch and skip exactly the dropped records.
C15_OriginalPositions ==
    Transformed =>
        /\ \A j \in 1..Len(processed_data) :
              processed_data[j]["record_position"] = NthEnhanced(j) - 1
        /\ \A j, k \in 1..Len(processed_data) :
              j < k => processed_data[j]["record_position"]
                          < processed_data[k]["record_position"]
        /\ {processed_data[j]["record_position"] : j \in 1..Len(processed_data)}
              = {i - 1 : i \in Enhanced}

C15_Witness ==
    /\ Transformed
    /\ Len(RawItems) = 2
    /\ Enhanced = {2}
    /\ Len(processed_data) = 1
    /\ processed_data[1]["record_position"] = 1

\* The document is one the collection held when the call began.
OldDocument(doc) ==
    \E o \in 1..Len(before.collection) : before.collection[o] = doc

\* C16: between a completed delete_many and insert_many the collection is
\* empty although it held documents before and a batch is waiting; when
\* the insert then fails, store_in_mongodb does not return True and none of
\* the deleted documents is back in the collection.
C16_DeleteInsertNotAtomic ==
    /\ (lpc = "insert" /\ Issued("delete_many")) =>
          /\ collection = <<>>
          /\ before.collection # <<>>
          /\ processed_data # <<>>
    /\ (StoreReturned /\ Issued("delete_many") /\ Issued("insert_many")
           /\ ~Issued("create_index")) =>
          /\ retval = "False"
          /\ store_result \in {"False", "raised"}
          /\ before.collection # <<>>
          /\ \A k \in 1..Len(collection) : ~OldDocument(collection[k])

C16_Witness ==
    /\ StoreReturned
    /\ store_result = "False"
    /\ Issued("delete_many")
    /\ Issued("insert_many")
    /\ Len(before.collection) = 2
    /\ collection = <<>>

\* The names of the store interactions of the current call, in order.
OpNames == [k \in 1..Len(ops) |-> ops[k].op]

\* C17: in the log of one store_in_mongodb call a create_index comes only
\* after an insert_many that stored the whole batch; delete_many is issued
\* exactly when the collection held documents, after the count and before
\* the insert; a call that failed on count, delete or insert (return value
\* False) issued no create_index.
C17_StoreCallOrder ==
    /\ \A k \in 1..Len(ops) :
          ops[k].op = "create_index" =>
             /\ \E j \in 1..(k - 1) : ops[j].op = "insert_many"
             /\ \A n \in 1..Len(processed_data) :
                   \E c \in 1..Len(collection) : collection[c] = processed_data[n]
    /\ \A k \in 1..Len(ops) :
          ops[k].op = "delete_many" =>
             /\ before.collection # <<>>
             /\ \E j \in 1..(k - 1) : ops[j].op = "count_documents"
    /\ \A k \in 1..Len(ops) :
          ops[k].op = "insert_many" =>
             /\ \A j \in 1..Len(ops) : ops[j].op = "delete_many" => j < k
             /\ before.collection # <<>> => Issued("delete_many")
    /\ retval = "False" => ~Issued("create_index")

C17_Witness ==
    /\ lpc = "returned"
    /\ store_result = "True"
    /\ OpNames = <<"MongoClient", "count_documents", "delete_many", "insert_many",
                   "create_index", "create_index", "create_index", "close">>

\* A stored document without the _id insert_many gave it.
StripId(doc) == [k \in DOMAIN doc \ {"_id"} |-> doc[k]]

\* C18: when the load stage of a run has returned True (and so when the run
\* is Succeeded), the collection holds one document for each record of the
\* transformed batch, in order and equal to the record but for its _id,
\* and no document from before the run.
C18_SucceededRunStoredBatch ==
    (caller = "pipeline" /\ (store_result = "True" \/ state = "Succeeded"))
    => LET batch == process_vulnerability_records(raw_vulnerability_data, clock) IN
       /\ batch # <<>>
       /\ Len(collection) = Len(batch)
       /\ \A n \in 1..Len(collection) :
             /\ StripId(collection[n]) = batch[n]
             /\ collection[n] = processed_data[n]
             /\ ~OldDocument(collection[n])

C18_Witness ==
    /\ caller = "pipeline"
    /\ state = "Succeeded"
    /\ Len(before.collection) = 1
    /\ Len(collection) = 2
    /\ KeyOf(collection[1]) = KeyOf(collection[2])

\* Two stored documents carry the same cveID.
DuplicateCveID ==
    \E i, j \in 1..Len(collection) :
       /\ i # j
       /\ "cveID" \in DOMAIN collection[i]
       /\ "cveID" \in DOMAIN collection[j]
       /\ collection[i]["cveID"] = collection[j]["cveID"]

\* C19 (as claimed): whenever store_in_mongodb has returned True, no two
\* documents of the collection have the same cveID.
C19_NoDuplicateAfterLoad ==
    (StoreReturned /\ store_result = "True") => ~DuplicateCveID

\* Two records of the batch handed to store_in_mongodb carry the same cveID.
BatchDuplicateCveID ==
    \E i, j \in 1..Len(processed_data) :
       /\ i # j
       /\ "cveID" \in DOMAIN processed_data[i]
       /\ "cveID" \in DOMAIN processed_data[j]
       /\ processed_data[i]["cveID"] = processed_data[j]["cveID"]

\* C19 (amended): whenever store_in_mongodb has returned True, no two
\* documents of the collection have the same cveID unless two records of
\* the loaded batch have; such a batch is stored with True only when the
\* collection had no unique index on cveID before the call, and then its
\* duplicates are stored, the unique index is not built and the index
\* failure is logged as a warning.
C19_NoDuplicateUnlessInBatch ==
    (StoreReturned /\ store_result = "True")
    => /\ ~BatchDuplicateCveID => ~DuplicateCveID
       /\ BatchDuplicateCveID
             => /\ "cveID" \notin before.indexes
                /\ DuplicateCveID
                /\ "cveID" \notin indexes
                /\ index_warning

\* A load that returned True replaced, without the help of a unique index,
\* a document whose cveID is again in the batch.
C19_Witness ==
    /\ StoreReturned
    /\ store_result = "True"
    /\ ~BatchDuplicateCveID
    /\ "cveID" \notin before.indexes
    /\ \E i \in 1..Len(before.collection) : \E j \in 1..Len(processed_data) :
          /\ "cveID" \in DOMAIN processed_data[j]
          /\ KeyOf(before.collection[i]) = KeyOf(processed_data[j])
    /\ ~DuplicateCveID

====
